---- MODULE Spec2Model ----
(***************************************************************************)
(* FAISSIndexManager (src/recommendations/faiss_utils/manager.py): the     *)
(* adaptive vector index behind the recommendation feature.  The manager   *)
(* owns a FAISS index object (self.index) and the raw vectors              *)
(* (self.embeddings); init_index / add_to_index / search / save_index /    *)
(* load_index are modelled as one action each.  The FAISS library calls    *)
(* the manager makes (IndexFlatL2, IndexIVFPQ, train, add, search,         *)
(* write_index, read_index) are modelled by what the library does with     *)
(* them: the dimension assertion of the Python wrapper, the is_trained     *)
(* check of IndexIVF.add, the -1 padding of search results, the nprobe     *)
(* inverted lists an IVF search scans.  PQ distances are approximate in    *)
(* the library; the model orders candidates by exact distance and no       *)
(* formula below depends on the distances of the clustered variant.        *)
(***************************************************************************)
EXTENDS Integers, Sequences, FiniteSets, TLC

VARIABLES
    index,       \* self.index: NoIndex or a FAISS index object
    embeddings,  \* self.embeddings: None or the raw rows
    disk,        \* the files save_index / load_index write and read
    saves,       \* number of save_index calls that wrote so far
    last,        \* the call that produced this state, its inputs and outcome
    git,         \* the git checkout, its remote and the process working directory
    threads,     \* the request threads that are inside a method of the manager
    use_gpu,     \* self.use_gpu: acceleration was requested for this manager
    gpu_available, \* the FAISS build and the machine offer a GPU
    response     \* the HTTP response of the last request to the service

vars ==
    <<index, embeddings, disk, saves, last, git, threads, use_gpu, gpu_available, response>>

-----------------------------------------------------------------------------
(* Configuration of the manager (FAISSIndexManager.__init__), scaled down.  *)

embedding_dim == 1
min_data_size_for_ivf == 2
nlist == 2
nprobe == 1
DefaultNprobe == 1

(* Bounds of the model. *)
MaxBatch == 2
MaxTotal == 3
MaxK == 4
MaxQueries == 1
MaxSaves == 1
MaxCalls == 2
MaxSnapshots == 2
MaxRequests == 1

Coords == {0, 1}
Paths == {<<"a">>}

-----------------------------------------------------------------------------
(* Vectors, batches (numpy arrays of shape (n, w)) and distances.           *)

Points(w) == [1..w -> Coords]

ZeroVec(w) == [i \in 1..w |-> 0]

SeqsUpTo(S, n) == UNION {[1..m -> S] : m \in 0..n}

GoodBatches(n) == {[w |-> embedding_dim, rows |-> r] : r \in SeqsUpTo(Points(embedding_dim), n)}

BadBatches(n) == {[w |-> embedding_dim + 1, rows |-> [i \in 1..m |-> ZeroVec(embedding_dim + 1)]] : m \in 0..n}

Batches(n) == GoodBatches(n) \cup BadBatches(n)

RECURSIVE SqDist(_, _, _)
SqDist(u, v, i) ==
    IF i = 0 THEN 0
    ELSE (u[i] - v[i]) * (u[i] - v[i]) + SqDist(u, v, i - 1)

L2(u, v) == SqDist(u, v, Len(u))

MaxCoord == CHOOSE c \in Coords : \A e \in Coords : e <= c

PadDistance == embedding_dim * MaxCoord * MaxCoord + 1

PadLabel == 0 - 1

None == [isNone |-> TRUE, w |-> 0, rows |-> <<>>]

Array(w, rows) == [isNone |-> FALSE, w |-> w, rows |-> rows]

NumRows(emb) == IF emb.isNone THEN 0 ELSE Len(emb.rows)

-----------------------------------------------------------------------------
(* The FAISS index objects the manager creates and what the library does    *)
(* with them.  An index record: kind ("None" | "Flat" | "IVFPQ", or        *)
(* "GpuFlat" | "GpuIVFPQ" for an index moved to the GPU), d, the           *)
(* stored vectors in id order (id = position - 1), is_trained, the coarse   *)
(* centroids fixed by training, the inverted list each stored vector was   *)
(* put in when it was added, and the index's own nprobe field.             *)

NoIndex ==
    [kind |-> "None", d |-> 0, vecs |-> <<>>, is_trained |-> FALSE,
     centroids |-> <<>>, lists |-> <<>>, nprobe |-> 0]

IndexFlatL2(d) ==
    [kind |-> "Flat", d |-> d, vecs |-> <<>>, is_trained |-> TRUE,
     centroids |-> <<>>, lists |-> <<>>, nprobe |-> 0]

IndexIVFPQ(d) ==
    [kind |-> "IVFPQ", d |-> d, vecs |-> <<>>, is_trained |-> FALSE,
     centroids |-> <<>>, lists |-> <<>>, nprobe |-> DefaultNprobe]

(* faiss.index_cpu_to_gpu: the GPU counterpart of a CPU index, an object   *)
(* of another class (GpuIndexFlatL2, GpuIndexIVFPQ) with the same          *)
(* contents.                                                               *)
index_cpu_to_gpu(idx) ==
    [idx EXCEPT !.kind = IF idx.kind = "Flat" THEN "GpuFlat" ELSE "GpuIVFPQ"]

GpuKinds == {"GpuFlat", "GpuIVFPQ"}

ntotal(idx) == Len(idx.vecs)

RECURSIVE RankUpTo(_, _)
RankUpTo(v, i) ==
    IF i = 0 THEN 0 ELSE v[i] + (MaxCoord + 1) * RankUpTo(v, i - 1)

Rank(v) == RankUpTo(v, Len(v))

RowSet(rows) == {rows[i] : i \in 1..Len(rows)}

(* index.train(x): the coarse k-means.  Its outcome depends on the data    *)
(* and on the library's seeded initialisation: every distinct training     *)
(* point becomes a centroid when there are at most nlist of them, and the  *)
(* remaining centroids are copies produced by splitting a cluster; which    *)
(* cluster is split is a choice.                                            *)
KMeansOutcomes(rows) ==
    {c \in [1..nlist -> RowSet(rows)] :
        /\ \A i \in 1..(nlist - 1) : Rank(c[i]) <= Rank(c[i + 1])
        /\ Cardinality(RowSet(rows)) <= nlist => {c[i] : i \in 1..nlist} = RowSet(rows)
        /\ Cardinality(RowSet(rows)) > nlist => \A i, j \in 1..nlist : c[i] = c[j] => i = j}

IndexTrain(idx, cent) == [idx EXCEPT !.is_trained = TRUE, !.centroids = cent]

(* (d1, j1) before (d2, j2): ascending distance, ties by ascending number. *)
Before(d1, j1, d2, j2) == d1 < d2 \/ (d1 = d2 /\ j1 < j2)

(* Centroid numbers in ascending (distance to v, number) order: place of j. *)
CentroidPlace(idx, v, j) ==
    1 + Cardinality({m \in 1..Len(idx.centroids) :
            Before(L2(idx.centroids[m], v), m, L2(idx.centroids[j], v), j)})

(* The inverted list a vector is stored in: its nearest centroid.          *)
ListOf(idx, v) ==
    CHOOSE j \in 1..Len(idx.centroids) : CentroidPlace(idx, v, j) = 1

(* index.add(x): the rows get the next ids; an IVFPQ index puts each row   *)
(* into the inverted list of its nearest centroid.                         *)
IndexAdd(idx, rows) ==
    IF idx.kind = "IVFPQ"
    THEN [idx EXCEPT !.vecs = idx.vecs \o rows,
                     !.lists = idx.lists \o [i \in 1..Len(rows) |-> ListOf(idx, rows[i])]]
    ELSE [idx EXCEPT !.vecs = idx.vecs \o rows]

(* The inverted lists a query scans: the idx.nprobe nearest centroids.     *)
ProbedLists(idx, q) ==
    {j \in 1..Len(idx.centroids) : CentroidPlace(idx, q, j) <= idx.nprobe}

(* Positions (1-based) of the stored vectors a query is compared with.     *)
Candidates(idx, q) ==
    IF idx.kind \in {"Flat", "GpuFlat"} THEN 1..Len(idx.vecs)
    ELSE {i \in 1..Len(idx.vecs) : idx.lists[i] \in ProbedLists(idx, q)}

(* The candidates in ascending (distance, id) order.                       *)
RECURSIVE SortCandidates(_, _, _)
SortCandidates(idx, q, S) ==
    IF S = {} THEN <<>>
    ELSE LET m == CHOOSE i \in S :
                    \A j \in S : j = i \/ Before(L2(idx.vecs[i], q), i, L2(idx.vecs[j], q), j)
         IN  <<m>> \o SortCandidates(idx, q, S \ {m})

(* k labels and k distances from the ordered candidates, the places past  *)
(* them filled with label -1 and the pad distance.                        *)
PadTo(idx, q, order, k) ==
    [D |-> [p \in 1..k |->
              IF p <= Len(order) THEN L2(idx.vecs[order[p]], q) ELSE PadDistance],
     I |-> [p \in 1..k |-> IF p <= Len(order) THEN order[p] - 1 ELSE PadLabel]]

(* index.search(x, k) for one query row.                                  *)
SearchRow(idx, q, k) == PadTo(idx, q, SortCandidates(idx, q, Candidates(idx, q)), k)

IndexSearch(idx, rows, k) ==
    LET res == [r \in 1..Len(rows) |-> SearchRow(idx, rows[r], k)]
    IN  [D |-> [r \in 1..Len(rows) |-> res[r].D],
         I |-> [r \in 1..Len(rows) |-> res[r].I]]

NoResult == [D |-> <<>>, I |-> <<>>]

-----------------------------------------------------------------------------
(* The manager's methods, as functions of the state they read.  Each       *)
(* returns the state the call leaves behind, its outcome ("ok" or the      *)
(* exception raised to the caller) and fresh: whether the call bound       *)
(* self.index to a new index object.                                       *)

(* create_index with the threshold compared by <= instead of <.           *)
create_index_OffByOne(data_size) ==
    IF data_size <= min_data_size_for_ivf
    THEN IndexFlatL2(embedding_dim)
    ELSE IndexIVFPQ(embedding_dim)

(* create_index that moves the index to the GPU whenever use_gpu is set,   *)
(* with no fallback.                                                       *)
create_index_NoFallback(data_size) ==
    LET created == IF data_size < min_data_size_for_ivf
                   THEN IndexFlatL2(embedding_dim)
                   ELSE IndexIVFPQ(embedding_dim)
    IN  IF use_gpu THEN index_cpu_to_gpu(created) ELSE created

(* create_index(data_size).  With use_gpu the index is moved to the GPU    *)
(* (lines 68-74); when the library raises, because the build has no GPU    *)
(* support or the machine no device, the exception is logged and the CPU   *)
(* index returned.                                                         *)
create_index(data_size) ==
    LET created == IF data_size < min_data_size_for_ivf
                   THEN IndexFlatL2(embedding_dim)
                   ELSE IndexIVFPQ(embedding_dim)
    IN  IF use_gpu /\ gpu_available THEN index_cpu_to_gpu(created) ELSE created

(* The Python wrapper of index.train / index.add / index.search asserts    *)
(* the width of its argument; the k-means of train throws when it is given *)
(* fewer points than clusters; IndexIVF.add throws on an untrained index.  *)
FaissTrainError(idx, B) ==
    IF B.w # idx.d THEN "AssertionError"
    ELSE IF Len(B.rows) < nlist THEN "RuntimeError"
    ELSE "ok"

FaissAddError(idx, B) ==
    IF B.w # idx.d THEN "AssertionError"
    ELSE IF ~idx.is_trained THEN "RuntimeError"
    ELSE "ok"

(* init_index trains exactly when it created an untrained IVFPQ index.     *)
InitTrains(B) ==
    LET idx == create_index(Len(B.rows))
    IN idx.kind = "IVFPQ" /\ ~idx.is_trained /\ FaissTrainError(idx, B) = "ok"

TrainChoices(B) == IF InitTrains(B) THEN KMeansOutcomes(B.rows) ELSE {<<>>}

(* init_index(embeddings): self.index is replaced first (line 89); a       *)
(* train or add that raises leaves the new index with the old embeddings.  *)
init_index(emb, B, cent) ==
    LET created == create_index(Len(B.rows))
        mustTrain == created.kind = "IVFPQ" /\ ~created.is_trained
        trainErr == IF mustTrain THEN FaissTrainError(created, B) ELSE "ok"
        trained == IF mustTrain /\ trainErr = "ok" THEN IndexTrain(created, cent) ELSE created
    IN  IF trainErr # "ok"
        THEN [index |-> created, embeddings |-> emb, out |-> trainErr, fresh |-> TRUE]
        ELSE IF FaissAddError(trained, B) # "ok"
        THEN [index |-> trained, embeddings |-> emb, out |-> FaissAddError(trained, B),
              fresh |-> TRUE]
        ELSE [index |-> IndexAdd(trained, B.rows), embeddings |-> Array(B.w, B.rows),
              out |-> "ok", fresh |-> TRUE]

(* total_size of add_to_index (line 112).                                  *)
AddTotalSize(emb, B) == NumRows(emb) + Len(B.rows)

SwitchesToIVF(idx, emb, B) ==
    idx.kind = "Flat" /\ AddTotalSize(emb, B) >= min_data_size_for_ivf

(* np.concatenate raises ValueError when the widths differ.                *)
ConcatError(emb, B) ==
    IF ~emb.isNone /\ emb.w # B.w THEN "ValueError" ELSE "ok"

(* old_embeddings of add_to_index (lines 116-120), and the new value of    *)
(* self.embeddings on the normal path (lines 128-131).                     *)
Concat(emb, B) ==
    IF emb.isNone THEN B ELSE [w |-> B.w, rows |-> emb.rows \o B.rows]

AddTrainChoices(idx, emb, B) ==
    IF SwitchesToIVF(idx, emb, B) /\ ConcatError(emb, B) = "ok"
    THEN TrainChoices(Concat(emb, B))
    ELSE {<<>>}

(* add_to_index that re-initialises from the new batch on every call.      *)
add_to_index_Reinit(idx, emb, B, cent) ==
    IF idx.kind = "None"
    THEN [index |-> idx, embeddings |-> emb, out |-> "ValueError", fresh |-> FALSE]
    ELSE IF ConcatError(emb, B) # "ok"
    THEN [index |-> idx, embeddings |-> emb, out |-> ConcatError(emb, B), fresh |-> FALSE]
    ELSE init_index(emb, B, CHOOSE c \in TrainChoices(B) : TRUE)

add_to_index(idx, emb, B, cent) ==
    IF idx.kind = "None"
    THEN [index |-> idx, embeddings |-> emb, out |-> "ValueError", fresh |-> FALSE]
    ELSE IF SwitchesToIVF(idx, emb, B)
    THEN IF ConcatError(emb, B) # "ok"
         THEN [index |-> idx, embeddings |-> emb, out |-> ConcatError(emb, B),
               fresh |-> FALSE]
         ELSE init_index(emb, Concat(emb, B), cent)
    ELSE IF FaissAddError(idx, B) # "ok"
    THEN [index |-> idx, embeddings |-> emb, out |-> FaissAddError(idx, B),
          fresh |-> FALSE]
    ELSE IF ConcatError(emb, B) # "ok"
    THEN [index |-> IndexAdd(idx, B.rows), embeddings |-> emb,
          out |-> ConcatError(emb, B), fresh |-> FALSE]
    ELSE [index |-> IndexAdd(idx, B.rows),
          embeddings |-> Array(B.w, Concat(emb, B).rows), out |-> "ok",
          fresh |-> FALSE]

(* search: line 156 writes the configured nprobe into an IVFPQ index       *)
(* before the library is called.                                           *)
WithNprobe(idx) == IF idx.kind = "IVFPQ" THEN [idx EXCEPT !.nprobe = nprobe] ELSE idx

(* Outcomes of index.search.  On an IVFPQ index that was never trained the *)
(* library either throws or scans no list, depending on its version.       *)
FaissSearchOutcomes(idx, Q, k) ==
    IF Q.w # idx.d
    THEN {[out |-> "AssertionError", result |-> NoResult]}
    ELSE {[out |-> "ok", result |-> IndexSearch(idx, Q.rows, k)]}
         \cup (IF idx.is_trained THEN {} ELSE {[out |-> "RuntimeError", result |-> NoResult]})

search(idx, Q, k) ==
    IF idx.kind = "None"
    THEN {[index |-> idx, out |-> "ValueError", result |-> NoResult]}
    ELSE {[index |-> WithNprobe(idx), out |-> o.out, result |-> o.result] :
            o \in FaissSearchOutcomes(WithNprobe(idx), Q, k)}

-----------------------------------------------------------------------------
(* The files of save_index / load_index.  A file name is the sequence of   *)
(* the dot-separated parts of the name: f"{path}.index" is path with       *)
(* "index" appended.                                                       *)

IndexFile(path) == path \o <<"index">>

NpyFile(path) == path \o <<"embeddings", "npy">>

FileNames == UNION {{path, IndexFile(path), NpyFile(path)} : path \in Paths}

Absent == [kind |-> "absent", idx |-> NoIndex, arr |-> None]

write_index(idx) == [kind |-> "index", idx |-> idx, arr |-> None]

np_save(emb) == [kind |-> "npy", idx |-> NoIndex, arr |-> emb]

(* faiss.write_index cannot serialise a GPU index and raises.              *)
(* save_index without the check for a missing index.                       *)
save_index_NoGuard(idx, emb, files, path) ==
    IF idx.kind \in GpuKinds
    THEN [disk |-> files, out |-> "RuntimeError"]
    ELSE IF idx.kind = "IVFPQ"
    THEN [disk |-> [files EXCEPT ![IndexFile(path)] = write_index(idx),
                                 ![NpyFile(path)] = np_save(emb)],
          out |-> "ok"]
    ELSE [disk |-> [files EXCEPT ![path] = write_index(idx)], out |-> "ok"]

save_index(idx, emb, files, path) ==
    IF idx.kind = "None"
    THEN [disk |-> files, out |-> "ValueError"]
    ELSE IF idx.kind \in GpuKinds
    THEN [disk |-> files, out |-> "RuntimeError"]
    ELSE IF idx.kind = "IVFPQ"
    THEN [disk |-> [files EXCEPT ![IndexFile(path)] = write_index(idx),
                                 ![NpyFile(path)] = np_save(emb)],
          out |-> "ok"]
    ELSE [disk |-> [files EXCEPT ![path] = write_index(idx)], out |-> "ok"]

(* faiss.read_index raises unless the file holds an index; np.load raises  *)
(* unless the file holds an array (np.save(None) writes a pickled object,  *)
(* which np.load refuses).                                                 *)
CanReadIndex(file) == file.kind = "index"

CanLoadArray(file) == file.kind = "npy" /\ ~file.arr.isNone

read_index(file) == file.idx

(* load_index: the try block assigns self.index before np.load runs, the   *)
(* bare except then reads the plain file and drops the embeddings.         *)
load_index(idx, emb, files, path) ==
    IF CanReadIndex(files[IndexFile(path)]) /\ CanLoadArray(files[NpyFile(path)])
    THEN [index |-> read_index(files[IndexFile(path)]),
          embeddings |-> files[NpyFile(path)].arr, out |-> "ok", fresh |-> TRUE]
    ELSE IF CanReadIndex(files[path])
    THEN [index |-> read_index(files[path]), embeddings |-> None, out |-> "ok",
          fresh |-> TRUE]
    ELSE IF CanReadIndex(files[IndexFile(path)])
    THEN [index |-> read_index(files[IndexFile(path)]), embeddings |-> emb,
          out |-> "RuntimeError", fresh |-> TRUE]
    ELSE [index |-> idx, embeddings |-> emb, out |-> "RuntimeError", fresh |-> FALSE]

-----------------------------------------------------------------------------
(* The git checkout that save_index_to_git_lfs / load_index_from_git_lfs   *)
(* run their commands in.  disk is its working tree.  A layer is what one  *)
(* of git's stores holds: a content per file name and whether              *)
(* .gitattributes carries the LFS pattern of the index path.  git.staged   *)
(* is the git index, git.head the local branch, git.remote the branch of   *)
(* origin; ahead: the local branch has a commit origin lacks; behind:      *)
(* origin has a commit the local branch lacks.  git.cwd is the working     *)
(* directory of the process, git.log the steps the last call attempted,    *)
(* git.fail the step the environment made fail in it.                      *)

OrigDir == "orig"

RepoPath == "repo"

Layer(files, attrs) == [files |-> files, attrs |-> attrs]

EmptyLayer == Layer([f \in FileNames |-> Absent], FALSE)

GitInit ==
    [cwd |-> OrigDir, attrs |-> FALSE, staged |-> EmptyLayer, head |-> EmptyLayer,
     remote |-> EmptyLayer, ahead |-> FALSE, behind |-> FALSE, log |-> <<>>,
     fail |-> "none"]

NoThreads == <<>>

(* No request has been answered yet.                                       *)
NoResponse == [code |-> 0, status |-> "none", data |-> <<>>]

(* git lfs track <path>: the pattern is written to .gitattributes.         *)
git_lfs_track(g) == [g EXCEPT !.attrs = TRUE]

(* git add .gitattributes <path>: fatal (pathspec matches no file) when    *)
(* the path is neither in the working tree nor in the git index.           *)
CanAdd(g, files, path) ==
    files[path].kind # "absent" \/ g.staged.files[path].kind # "absent"

git_add(g, files, path) ==
    [g EXCEPT !.staged = Layer([g.staged.files EXCEPT ![path] = files[path]], g.attrs)]

(* git commit -m: exit status 1 when nothing is staged that differs from   *)
(* HEAD ("nothing to commit").                                             *)
CanCommit(g) == g.staged # g.head

git_commit(g) == [g EXCEPT !.head = g.staged, !.ahead = TRUE]

(* git push origin HEAD: rejected when origin has commits the local        *)
(* branch lacks (not a fast-forward); "up to date" is a success.           *)
CanPush(g) == ~g.behind

git_push(g) == [g EXCEPT !.remote = g.head, !.ahead = FALSE]

(* git pull origin <branch>.  Nothing to fetch: success.  Fast-forward:    *)
(* refused when a file the merge would write has local changes (in the     *)
(* working tree or staged).  Diverged branches: the merge succeeds only    *)
(* when both sides hold the same contents, the snapshot being a binary.    *)
PullBlocked(g, files) ==
    \/ \E f \in FileNames :
          /\ g.remote.files[f] # g.head.files[f]
          /\ files[f] # g.head.files[f] \/ g.staged.files[f] # g.head.files[f]
    \/ /\ g.remote.attrs # g.head.attrs
       /\ g.attrs # g.head.attrs \/ g.staged.attrs # g.head.attrs

CanPull(g, files) ==
    IF ~g.behind THEN TRUE
    ELSE IF g.ahead THEN g.head = g.remote
    ELSE ~PullBlocked(g, files)

git_pull(g, files) ==
    IF ~g.behind THEN [git |-> g, disk |-> files]
    ELSE IF g.ahead THEN [git |-> [g EXCEPT !.behind = FALSE], disk |-> files]
    ELSE [git |-> [g EXCEPT !.head = g.remote,
                            !.staged = Layer([f \in FileNames |->
                                                 IF g.remote.files[f] # g.head.files[f]
                                                 THEN g.remote.files[f]
                                                 ELSE g.staged.files[f]],
                                             g.remote.attrs),
                            !.attrs = g.remote.attrs,
                            !.behind = FALSE],
          disk |-> [f \in FileNames |->
                       IF g.remote.files[f] # g.head.files[f]
                       THEN g.remote.files[f] ELSE files[f]]]

(* The steps of the two methods in program order, and the step the         *)
(* environment makes fail in one call (the network, the file system, a     *)
(* removed directory), if any.                                             *)
SaveSteps ==
    <<"getcwd", "chdir", "save_index", "lfs_track", "add", "commit", "push", "chdir_back">>

LoadSteps ==
    <<"getcwd", "chdir", "pull", "lfs_install", "lfs_pull", "load_index", "chdir_back">>

LfsOps == {"save_index_to_git_lfs", "load_index_from_git_lfs"}

StepsOf(op) == IF op = "save_index_to_git_lfs" THEN SaveSteps ELSE LoadSteps

NoFailure == "none"

Failures(steps) == {steps[i] : i \in 1..Len(steps)} \cup {NoFailure}

(* The write of the snapshot can also fail half-way: for an IVFPQ index    *)
(* write_index has written the index file when np.save raises.            *)
SaveFailures == Failures(SaveSteps) \cup {"np_save"}

FailedStep(fail) == IF fail = "np_save" THEN "save_index" ELSE fail

UpTo(steps, step) == SubSeq(steps, 1, CHOOSE i \in 1..Len(steps) : steps[i] = step)

(* What a call leaves behind: the manager, the working tree, the git       *)
(* state with the working directory and the steps attempted, and what the  *)
(* caller gets: "True", "False" or the exception that escapes.             *)
LfsResult(idx, emb, files, g, dir, out, fresh, log) ==
    [index |-> idx, embeddings |-> emb, disk |-> files,
     git |-> [g EXCEPT !.cwd = dir, !.log = log], out |-> out, fresh |-> fresh]

(* The git state a call leaves, with the failure the environment caused   *)
(* in it: fail when the step that ended the call is the one the            *)
(* environment made fail, "none" when the call succeeded or failed on its  *)
(* own.                                                                    *)
Injected(r, fail) ==
    [r.git EXCEPT !.fail = IF r.out # "True" /\ r.git.log[Len(r.git.log)] = FailedStep(fail)
                           THEN fail ELSE NoFailure]

(* save_index_to_git_lfs that does not check the exit status of git        *)
(* commit and goes on to push.                                             *)
save_index_to_git_lfs_UncheckedCommit(idx, emb, files, g, path, fail) ==
    LET saved == save_index(idx, emb, files, path)
        tracked == git_lfs_track(g)
        added == git_add(tracked, saved.disk, path)
        committed == IF fail = "commit" \/ ~CanCommit(added) THEN added ELSE git_commit(added)
        pushed == git_push(committed)
    IN  IF fail = "getcwd"
        THEN LfsResult(idx, emb, files, g, g.cwd, "UnboundLocalError", FALSE,
                       UpTo(SaveSteps, "getcwd"))
        ELSE IF fail = "chdir"
        THEN LfsResult(idx, emb, files, g, g.cwd, "False", FALSE, UpTo(SaveSteps, "chdir"))
        ELSE IF fail \in {"save_index", "np_save"} \/ saved.out # "ok"
        THEN LfsResult(idx, emb, files, g, g.cwd, "False", FALSE,
                       UpTo(SaveSteps, "save_index"))
        ELSE IF fail = "lfs_track"
        THEN LfsResult(idx, emb, saved.disk, g, g.cwd, "False", FALSE,
                       UpTo(SaveSteps, "lfs_track"))
        ELSE IF fail = "add" \/ ~CanAdd(tracked, saved.disk, path)
        THEN LfsResult(idx, emb, saved.disk, tracked, g.cwd, "False", FALSE,
                       UpTo(SaveSteps, "add"))
        ELSE IF fail = "push" \/ ~CanPush(committed)
        THEN LfsResult(idx, emb, saved.disk, committed, g.cwd, "False", FALSE,
                       UpTo(SaveSteps, "push"))
        ELSE IF fail = "chdir_back"
        THEN LfsResult(idx, emb, saved.disk, pushed, RepoPath, "FileNotFoundError", FALSE,
                       SaveSteps)
        ELSE LfsResult(idx, emb, saved.disk, pushed, g.cwd, "True", FALSE, SaveSteps)

(* save_index_to_git_lfs(repo_path, index_path).  fail is the step the     *)
(* environment makes fail.  Every exception lands in the except block,     *)
(* which changes back to original_dir and returns False; original_dir is   *)
(* unbound when os.getcwd() itself raised, and the chdir of the except     *)
(* block raises again when the chdir back (line 236) already failed.       *)
save_index_to_git_lfs(idx, emb, files, g, path, fail) ==
    LET saved == save_index(idx, emb, files, path)
        tracked == git_lfs_track(g)
        added == git_add(tracked, saved.disk, path)
        committed == git_commit(added)
        pushed == git_push(committed)
    IN  IF fail = "getcwd"
        THEN LfsResult(idx, emb, files, g, g.cwd, "UnboundLocalError", FALSE,
                       UpTo(SaveSteps, "getcwd"))
        ELSE IF fail = "chdir"
        THEN LfsResult(idx, emb, files, g, g.cwd, "False", FALSE, UpTo(SaveSteps, "chdir"))
        ELSE IF fail = "save_index" \/ saved.out # "ok"
        THEN LfsResult(idx, emb, files, g, g.cwd, "False", FALSE,
                       UpTo(SaveSteps, "save_index"))
        ELSE IF fail = "np_save"
        THEN LfsResult(idx, emb,
                       IF idx.kind = "IVFPQ"
                       THEN [files EXCEPT ![IndexFile(path)] = write_index(idx)]
                       ELSE files,
                       g, g.cwd, "False", FALSE, UpTo(SaveSteps, "save_index"))
        ELSE IF fail = "lfs_track"
        THEN LfsResult(idx, emb, saved.disk, g, g.cwd, "False", FALSE,
                       UpTo(SaveSteps, "lfs_track"))
        ELSE IF fail = "add" \/ ~CanAdd(tracked, saved.disk, path)
        THEN LfsResult(idx, emb, saved.disk, tracked, g.cwd, "False", FALSE,
                       UpTo(SaveSteps, "add"))
        ELSE IF fail = "commit" \/ ~CanCommit(added)
        THEN LfsResult(idx, emb, saved.disk, added, g.cwd, "False", FALSE,
                       UpTo(SaveSteps, "commit"))
        ELSE IF fail = "push" \/ ~CanPush(committed)
        THEN LfsResult(idx, emb, saved.disk, committed, g.cwd, "False", FALSE,
                       UpTo(SaveSteps, "push"))
        ELSE IF fail = "chdir_back"
        THEN LfsResult(idx, emb, saved.disk, pushed, RepoPath, "FileNotFoundError", FALSE,
                       SaveSteps)
        ELSE LfsResult(idx, emb, saved.disk, pushed, g.cwd, "True", FALSE, SaveSteps)

(* load_index_from_git_lfs whose except block returns False without        *)
(* changing back to the original directory.                                *)
load_index_from_git_lfs_NoRestore(idx, emb, files, g, path, fail) ==
    LET pulled == git_pull(g, files)
        loaded == load_index(idx, emb, pulled.disk, path)
    IN  IF fail = "getcwd"
        THEN LfsResult(idx, emb, files, g, g.cwd, "UnboundLocalError", FALSE,
                       UpTo(LoadSteps, "getcwd"))
        ELSE IF fail = "chdir"
        THEN LfsResult(idx, emb, files, g, g.cwd, "False", FALSE, UpTo(LoadSteps, "chdir"))
        ELSE IF fail = "pull" \/ ~CanPull(g, files)
        THEN LfsResult(idx, emb, files, g, RepoPath, "False", FALSE, UpTo(LoadSteps, "pull"))
        ELSE IF fail = "lfs_install"
        THEN LfsResult(idx, emb, pulled.disk, pulled.git, RepoPath, "False", FALSE,
                       UpTo(LoadSteps, "lfs_install"))
        ELSE IF fail = "lfs_pull"
        THEN LfsResult(idx, emb, pulled.disk, pulled.git, RepoPath, "False", FALSE,
                       UpTo(LoadSteps, "lfs_pull"))
        ELSE IF fail = "load_index"
        THEN LfsResult(idx, emb, pulled.disk, pulled.git, RepoPath, "False", FALSE,
                       UpTo(LoadSteps, "load_index"))
        ELSE IF loaded.out # "ok"
        THEN LfsResult(loaded.index, loaded.embeddings, pulled.disk, pulled.git, RepoPath,
                       "False", loaded.fresh, UpTo(LoadSteps, "load_index"))
        ELSE IF fail = "chdir_back"
        THEN LfsResult(loaded.index, loaded.embeddings, pulled.disk, pulled.git, RepoPath,
                       "FileNotFoundError", loaded.fresh, LoadSteps)
        ELSE LfsResult(loaded.index, loaded.embeddings, pulled.disk, pulled.git, g.cwd,
                       "True", loaded.fresh, LoadSteps)

(* load_index_from_git_lfs(repo_path, index_path, branch): the same        *)
(* pattern.  git lfs install and git lfs pull change nothing the model     *)
(* keeps (the pull has already written the contents); they can fail.       *)
(* load_index can have replaced self.index before it raises.               *)
load_index_from_git_lfs(idx, emb, files, g, path, fail) ==
    LET pulled == git_pull(g, files)
        loaded == load_index(idx, emb, pulled.disk, path)
    IN  IF fail = "getcwd"
        THEN LfsResult(idx, emb, files, g, g.cwd, "UnboundLocalError", FALSE,
                       UpTo(LoadSteps, "getcwd"))
        ELSE IF fail = "chdir"
        THEN LfsResult(idx, emb, files, g, g.cwd, "False", FALSE, UpTo(LoadSteps, "chdir"))
        ELSE IF fail = "pull" \/ ~CanPull(g, files)
        THEN LfsResult(idx, emb, files, g, g.cwd, "False", FALSE, UpTo(LoadSteps, "pull"))
        ELSE IF fail = "lfs_install"
        THEN LfsResult(idx, emb, pulled.disk, pulled.git, g.cwd, "False", FALSE,
                       UpTo(LoadSteps, "lfs_install"))
        ELSE IF fail = "lfs_pull"
        THEN LfsResult(idx, emb, pulled.disk, pulled.git, g.cwd, "False", FALSE,
                       UpTo(LoadSteps, "lfs_pull"))
        ELSE IF fail = "load_index"
        THEN LfsResult(idx, emb, pulled.disk, pulled.git, g.cwd, "False", FALSE,
                       UpTo(LoadSteps, "load_index"))
        ELSE IF loaded.out # "ok"
        THEN LfsResult(loaded.index, loaded.embeddings, pulled.disk, pulled.git, g.cwd,
                       "False", loaded.fresh, UpTo(LoadSteps, "load_index"))
        ELSE IF fail = "chdir_back"
        THEN LfsResult(loaded.index, loaded.embeddings, pulled.disk, pulled.git, RepoPath,
                       "FileNotFoundError", loaded.fresh, LoadSteps)
        ELSE LfsResult(loaded.index, loaded.embeddings, pulled.disk, pulled.git, g.cwd,
                       "True", loaded.fresh, LoadSteps)

-----------------------------------------------------------------------------
(* The state machine.  last records the call that led to the state: its    *)
(* name, its arguments, its outcome, what search returned, whether         *)
(* self.index was bound to a new object, and what the call started from.   *)

EmptyBatch == [w |-> 0, rows |-> <<>>]

NoPath == <<>>

(* init_index is called with batches of the configured width; a call     *)
(* that fails part-way is not part of this specification.  add_to_index   *)
(* and search are also called with batches of a wrong width.              *)
InitBatches == GoodBatches(MaxBatch)

AddBatches == Batches(MaxBatch)

Queries == {Q \in Batches(MaxQueries) : Len(Q.rows) >= 1}

(* What a call started from: the variant and whether the embeddings were   *)
(* None.                                                                   *)
Pre == [kind |-> index.kind, isNone |-> embeddings.isNone]

Call(op, out, fresh, B, k, path, result) ==
    [op |-> op, out |-> out, fresh |-> fresh, batch |-> B, k |-> k, path |-> path,
     result |-> result, pre |-> Pre]

Init ==
    /\ index = NoIndex
    /\ embeddings = None
    /\ disk = [f \in FileNames |-> Absent]
    /\ saves = 0
    /\ git = GitInit
    /\ threads = NoThreads
    /\ use_gpu = FALSE
    /\ gpu_available = FALSE
    /\ response = NoResponse
    /\ last = [op |-> "new", out |-> "ok", fresh |-> FALSE, batch |-> EmptyBatch,
               k |-> 0, path |-> NoPath, result |-> NoResult,
               pre |-> [kind |-> "None", isNone |-> TRUE]]

(* FAISSIndexManager(...): a fresh manager in the same process, the files  *)
(* on disk staying as they are.                                            *)
New ==
    /\ index' = NoIndex
    /\ embeddings' = None
    /\ last' = Call("new", "ok", FALSE, EmptyBatch, 0, NoPath, NoResult)
    /\ UNCHANGED <<disk, saves, git, threads, use_gpu, gpu_available, response>>

InitIndexFrom(batches) ==
    \E B \in batches : \E cent \in TrainChoices(B) :
        LET r == init_index(embeddings, B, cent)
        IN  /\ index' = r.index
            /\ embeddings' = r.embeddings
            /\ last' = Call("init_index", r.out, r.fresh, B, 0, NoPath, NoResult)
            /\ UNCHANGED <<disk, saves, git, threads, use_gpu, gpu_available, response>>

InitIndex == InitIndexFrom(InitBatches)

AddToIndex ==
    \E B \in AddBatches : \E cent \in AddTrainChoices(index, embeddings, B) :
        /\ ntotal(index) + Len(B.rows) <= MaxTotal
        /\ NumRows(embeddings) + Len(B.rows) <= MaxTotal
        /\ LET r == add_to_index(index, embeddings, B, cent)
           IN  /\ index' = r.index
               /\ embeddings' = r.embeddings
               /\ last' = Call("add_to_index", r.out, r.fresh, B, 0, NoPath, NoResult)
               /\ UNCHANGED <<disk, saves, git, threads, use_gpu, gpu_available, response>>

Search ==
    \E Q \in Queries : \E k \in 1..MaxK : \E r \in search(index, Q, k) :
        /\ index' = r.index
        /\ last' = Call("search", r.out, FALSE, Q, k, NoPath, r.result)
        /\ UNCHANGED <<embeddings, disk, saves, git, threads, use_gpu, gpu_available, response>>

SaveIndex ==
    \E path \in Paths :
        LET r == save_index(index, embeddings, disk, path)
        IN  /\ r.out = "ok" => saves < MaxSaves
            /\ disk' = r.disk
            /\ saves' = IF r.out = "ok" THEN saves + 1 ELSE saves
            /\ last' = Call("save_index", r.out, FALSE, EmptyBatch, 0, path, NoResult)
            /\ UNCHANGED <<index, embeddings, git, threads, use_gpu, gpu_available, response>>

LoadIndex ==
    \E path \in Paths :
        LET r == load_index(index, embeddings, disk, path)
        IN  /\ index' = r.index
            /\ embeddings' = r.embeddings
            /\ last' = Call("load_index", r.out, r.fresh, EmptyBatch, 0, path, NoResult)
            /\ UNCHANGED <<disk, saves, git, threads, use_gpu, gpu_available, response>>

Next == New \/ InitIndex \/ AddToIndex \/ Search \/ SaveIndex \/ LoadIndex

Spec == Init /\ [][Next]_vars

-----------------------------------------------------------------------------
(* The manager with its git-lfs persistence: snapshots are built by        *)
(* init_index, saved to and loaded from the checkout.  The contents of the *)
(* vectors play no part here, the batches are rows of zeros.               *)

SnapshotBatches ==
    {B \in GoodBatches(MaxBatch) : \A i \in 1..Len(B.rows) : B.rows[i] = ZeroVec(B.w)}

SnapshotInitIndex == InitIndexFrom(SnapshotBatches)

SaveIndexToGitLfs ==
    \E path \in Paths : \E fail \in SaveFailures :
        LET r == save_index_to_git_lfs(index, embeddings, disk, git, path, fail)
        IN  /\ index' = r.index
            /\ embeddings' = r.embeddings
            /\ disk' = r.disk
            /\ git' = Injected(r, fail)
            /\ last' = Call("save_index_to_git_lfs", r.out, r.fresh, EmptyBatch, 0, path,
                            NoResult)
            /\ UNCHANGED <<saves, threads, use_gpu, gpu_available, response>>

LoadIndexFromGitLfs ==
    \E path \in Paths : \E fail \in Failures(LoadSteps) :
        LET r == load_index_from_git_lfs(index, embeddings, disk, git, path, fail)
        IN  /\ index' = r.index
            /\ embeddings' = r.embeddings
            /\ disk' = r.disk
            /\ git' = Injected(r, fail)
            /\ last' = Call("load_index_from_git_lfs", r.out, r.fresh, EmptyBatch, 0, path,
                            NoResult)
            /\ UNCHANGED <<saves, threads, use_gpu, gpu_available, response>>

(* The service starts on another machine: a fresh manager over a clone     *)
(* that was taken before anything was pushed; origin keeps what it has.    *)
OtherCheckout ==
    /\ index' = NoIndex
    /\ embeddings' = None
    /\ disk' = [f \in FileNames |-> Absent]
    /\ git' = [GitInit EXCEPT !.remote = git.remote, !.behind = git.remote # EmptyLayer]
    /\ last' = Call("checkout", "ok", FALSE, EmptyBatch, 0, NoPath, NoResult)
    /\ UNCHANGED <<saves, threads, use_gpu, gpu_available, response>>

NextLfs == SnapshotInitIndex \/ SaveIndexToGitLfs \/ LoadIndexFromGitLfs \/ OtherCheckout

SpecLfs == Init /\ [][NextLfs]_vars

-----------------------------------------------------------------------------
(* Request threads calling init_index, add_to_index and search on one      *)
(* manager.  The manager takes no lock, so the calls interleave between    *)
(* the statements of the methods.  A step below is one statement (or one   *)
(* condition with the reads it makes); a call into the FAISS library is    *)
(* taken as one step, so every behaviour of this specification is an       *)
(* interleaving the program can run; overlapping library calls add more.   *)
(* A thread record holds the position in the method (pc), the method       *)
(* (op), the argument of the call (batch), the argument of the init_index  *)
(* being run (arg), the value read from self.embeddings (old), the         *)
(* outcome (out), the count at the time of the call (n0), what a search    *)
(* saw when it ran (seen), the number of calls made so far (calls),        *)
(* whether no other thread was inside a mutating method when the call      *)
(* began (quiet), and the call number of the add_to_index another thread   *)
(* was inside at that time (peer, 0 when there was none).                  *)

Threads == {1, 2}

NoSeen == [busy |-> FALSE, kind |-> "None", ntotal |-> 0, is_trained |-> FALSE, store |-> 0]

Idle ==
    [pc |-> "idle", op |-> "none", batch |-> EmptyBatch, arg |-> EmptyBatch, old |-> None,
     out |-> "ok", n0 |-> 0, seen |-> NoSeen, calls |-> 0, quiet |-> TRUE, peer |-> 0]

ConcBatches == {B \in SnapshotBatches : Len(B.rows) >= 1}

MutatorPcs == {"i1", "i2", "i3", "i4", "a1", "a2", "a3", "a4", "a5"}

(* Another thread is inside a mutating method.                             *)
Busy(t) == \E u \in Threads \ {t} : threads[u].pc \in MutatorPcs

(* The call of add_to_index that is running in another thread, if any.     *)
PeerAdd(t) ==
    IF \E u \in Threads \ {t} :
            threads[u].pc \in MutatorPcs /\ threads[u].op = "add_to_index"
    THEN threads[CHOOSE u \in Threads \ {t} :
                    threads[u].pc \in MutatorPcs /\ threads[u].op = "add_to_index"].calls
    ELSE 0

Step(t, rec) ==
    /\ threads' = [threads EXCEPT ![t] = rec]
    /\ UNCHANGED <<disk, saves, last, git, use_gpu, gpu_available, response>>

Done(t, out) ==
    [threads[t] EXCEPT !.pc = "done", !.out = out, !.arg = EmptyBatch, !.old = None]

CanCall(t) == threads[t].pc \in {"idle", "done"} /\ threads[t].calls < MaxCalls

At(t, pc) == [threads[t] EXCEPT !.pc = pc]

InitConc ==
    /\ index = NoIndex
    /\ embeddings = None
    /\ disk = [f \in FileNames |-> Absent]
    /\ saves = 0
    /\ git = GitInit
    /\ threads = [t \in Threads |-> Idle]
    /\ use_gpu = FALSE
    /\ gpu_available = FALSE
    /\ response = NoResponse
    /\ last = [op |-> "new", out |-> "ok", fresh |-> FALSE, batch |-> EmptyBatch,
               k |-> 0, path |-> NoPath, result |-> NoResult,
               pre |-> [kind |-> "None", isNone |-> TRUE]]

(* A request thread enters a method.                                       *)
CallInit(t) ==
    \E B \in ConcBatches :
        /\ CanCall(t)
        /\ Step(t, [Idle EXCEPT !.pc = "i1", !.op = "init_index", !.batch = B, !.arg = B,
                                !.n0 = ntotal(index), !.calls = threads[t].calls + 1,
                                !.quiet = ~Busy(t), !.peer = PeerAdd(t)])
        /\ UNCHANGED <<index, embeddings>>

CallAdd(t) ==
    \E B \in ConcBatches :
        /\ CanCall(t)
        /\ ntotal(index) + Len(B.rows) <= MaxTotal
        /\ NumRows(embeddings) + Len(B.rows) <= MaxTotal
        /\ Step(t, [Idle EXCEPT !.pc = "a1", !.op = "add_to_index", !.batch = B,
                                !.n0 = ntotal(index), !.calls = threads[t].calls + 1,
                                !.quiet = ~Busy(t), !.peer = PeerAdd(t)])
        /\ UNCHANGED <<index, embeddings>>

CallSearch(t) ==
    /\ CanCall(t)
    /\ Step(t, [Idle EXCEPT !.pc = "s1", !.op = "search", !.n0 = ntotal(index),
                            !.calls = threads[t].calls + 1, !.quiet = ~Busy(t),
                            !.peer = PeerAdd(t)])
    /\ UNCHANGED <<index, embeddings>>

(* init_index, statement by statement (lines 89, 91-92, 94, 95).  Each     *)
(* statement reads self.index anew.                                        *)
InitCreate(t) ==
    /\ threads[t].pc = "i1"
    /\ index' = create_index(Len(threads[t].arg.rows))
    /\ Step(t, At(t, "i2"))
    /\ UNCHANGED embeddings

InitTrain(t) ==
    /\ threads[t].pc = "i2"
    /\ UNCHANGED embeddings
    /\ IF index.kind = "IVFPQ" /\ ~index.is_trained
       THEN IF FaissTrainError(index, threads[t].arg) # "ok"
            THEN /\ Step(t, Done(t, FaissTrainError(index, threads[t].arg)))
                 /\ UNCHANGED index
            ELSE \E cent \in KMeansOutcomes(threads[t].arg.rows) :
                    /\ index' = IndexTrain(index, cent)
                    /\ Step(t, At(t, "i3"))
       ELSE /\ Step(t, At(t, "i3"))
            /\ UNCHANGED index

InitAdd(t) ==
    /\ threads[t].pc = "i3"
    /\ UNCHANGED embeddings
    /\ IF FaissAddError(index, threads[t].arg) # "ok"
       THEN /\ Step(t, Done(t, FaissAddError(index, threads[t].arg)))
            /\ UNCHANGED index
       ELSE /\ index' = IndexAdd(index, threads[t].arg.rows)
            /\ Step(t, At(t, "i4"))

InitStore(t) ==
    /\ threads[t].pc = "i4"
    /\ embeddings' = Array(threads[t].arg.w, threads[t].arg.rows)
    /\ Step(t, Done(t, "ok"))
    /\ UNCHANGED index

(* add_to_index: the checks (lines 104-113), the concatenation before a    *)
(* rebuild (116-120) followed by init_index, the cheap add (125), and the  *)
(* update of self.embeddings (128-131), which reads the attribute and      *)
(* then assigns it.                                                        *)
AddCheck(t) ==
    /\ threads[t].pc = "a1"
    /\ UNCHANGED <<index, embeddings>>
    /\ IF index.kind = "None" THEN Step(t, Done(t, "ValueError"))
       ELSE IF SwitchesToIVF(index, embeddings, threads[t].batch) THEN Step(t, At(t, "a2"))
       ELSE Step(t, At(t, "a3"))

AddConcat(t) ==
    /\ threads[t].pc = "a2"
    /\ UNCHANGED <<index, embeddings>>
    /\ IF ConcatError(embeddings, threads[t].batch) # "ok"
       THEN Step(t, Done(t, ConcatError(embeddings, threads[t].batch)))
       ELSE Step(t, [threads[t] EXCEPT !.pc = "i1",
                                       !.arg = Concat(embeddings, threads[t].batch)])

AddAppend(t) ==
    /\ threads[t].pc = "a3"
    /\ UNCHANGED embeddings
    /\ IF FaissAddError(index, threads[t].batch) # "ok"
       THEN /\ Step(t, Done(t, FaissAddError(index, threads[t].batch)))
            /\ UNCHANGED index
       ELSE /\ index' = IndexAdd(index, threads[t].batch.rows)
            /\ Step(t, At(t, "a4"))

AddRead(t) ==
    /\ threads[t].pc = "a4"
    /\ Step(t, [threads[t] EXCEPT !.pc = "a5", !.old = embeddings])
    /\ UNCHANGED <<index, embeddings>>

AddStore(t) ==
    /\ threads[t].pc = "a5"
    /\ UNCHANGED index
    /\ IF ConcatError(threads[t].old, threads[t].batch) # "ok"
       THEN /\ Step(t, Done(t, ConcatError(threads[t].old, threads[t].batch)))
            /\ UNCHANGED embeddings
       ELSE /\ embeddings' = Array(threads[t].batch.w,
                                   Concat(threads[t].old, threads[t].batch).rows)
            /\ Step(t, Done(t, "ok"))

(* search: the check and the nprobe assignment (148-156), then the library *)
(* call (158), which sees whatever self.index is bound to at that moment.  *)
SearchCheck(t) ==
    /\ threads[t].pc = "s1"
    /\ UNCHANGED embeddings
    /\ IF index.kind = "None"
       THEN /\ Step(t, Done(t, "ValueError"))
            /\ UNCHANGED index
       ELSE /\ index' = WithNprobe(index)
            /\ Step(t, At(t, "s2"))

SearchRun(t) ==
    /\ threads[t].pc = "s2"
    /\ UNCHANGED <<index, embeddings>>
    /\ Step(t, [Done(t, "ok") EXCEPT
                   !.seen = [busy |-> Busy(t), kind |-> index.kind, ntotal |-> ntotal(index),
                             is_trained |-> index.is_trained,
                             store |-> NumRows(embeddings)]])

NextConc ==
    \E t \in Threads :
        \/ CallInit(t) \/ CallAdd(t) \/ CallSearch(t)
        \/ InitCreate(t) \/ InitTrain(t) \/ InitAdd(t) \/ InitStore(t)
        \/ AddCheck(t) \/ AddConcat(t) \/ AddAppend(t) \/ AddRead(t) \/ AddStore(t)
        \/ SearchCheck(t) \/ SearchRun(t)

SpecConc == InitConc /\ [][NextConc]_vars

-----------------------------------------------------------------------------
(* The service process (apps.py, views.py, service.py).  Every handler     *)
(* builds its own RecommendationService, whose index_manager starts as     *)
(* None (service.py line 21); ready() does the same at startup.  index     *)
(* and embeddings are here the manager that the process created last, in   *)
(* ready() or in a request; no later request holds a reference to it.      *)
(* Snapshots reach origin from other writers.                              *)

NewService == [index_manager |-> FALSE, index |-> NoIndex, embeddings |-> None]

Response(code, status, data) == [code |-> code, status |-> status, data |-> data]

(* type(self.index).__name__                                               *)
TypeName(idx) ==
    IF idx.kind = "None" THEN "NoneType"
    ELSE IF idx.kind = "Flat" THEN "IndexFlatL2"
    ELSE IF idx.kind = "IVFPQ" THEN "IndexIVFPQ"
    ELSE IF idx.kind = "GpuFlat" THEN "GpuIndexFlatL2"
    ELSE "GpuIndexIVFPQ"

(* RecommendationService.load_faiss_index_from_git_lfs: the manager is     *)
(* created when the service has none; an exception that escapes the        *)
(* manager is caught and False returned.                                   *)
load_faiss_index_from_git_lfs(svc, files, g, path, fail) ==
    LET r == load_index_from_git_lfs(svc.index, svc.embeddings, files, g, path, fail)
    IN  [r EXCEPT !.out = IF r.out = "True" THEN "True" ELSE "False"]

(* RecommendationService.save_faiss_index_to_git_lfs: False when the       *)
(* service has no manager.                                                 *)
save_faiss_index_to_git_lfs(svc, files, g, path, fail) ==
    IF ~svc.index_manager
    THEN LfsResult(svc.index, svc.embeddings, files, g, g.cwd, "False", FALSE, <<>>)
    ELSE LET r == save_index_to_git_lfs(svc.index, svc.embeddings, files, g, path, fail)
         IN  [r EXCEPT !.out = IF r.out = "True" THEN "True" ELSE "False"]

(* RecommendationService._update_faiss_index: False when the service has   *)
(* no manager; the embeddings of all users (B) are stacked, which raises   *)
(* when there is no user, and handed to init_index; every exception ends   *)
(* in False.                                                               *)
_update_faiss_index(svc, B, cent) ==
    IF ~svc.index_manager
    THEN [svc |-> svc, out |-> "False"]
    ELSE IF Len(B.rows) = 0
    THEN [svc |-> svc, out |-> "False"]
    ELSE LET r == init_index(svc.embeddings, B, cent)
         IN  [svc |-> [svc EXCEPT !.index = r.index, !.embeddings = r.embeddings],
              out |-> IF r.out = "ok" THEN "True" ELSE "False"]

(* get_faiss_status on a service (views.py 196-214).                       *)
get_faiss_status(svc) ==
    IF ~svc.index_manager
    THEN Response(200, "not_initialized", <<>>)
    ELSE Response(200, "success",
                  [is_initialized |-> svc.index.kind # "None",
                   index_type |-> TypeName(svc.index),
                   num_vectors |-> IF svc.index.kind # "None" THEN ntotal(svc.index) ELSE 0,
                   dimension |-> embedding_dim,
                   use_gpu |-> use_gpu])

(* update_faiss_index on a service (views.py 269-294).                     *)
update_faiss_index(svc, files, g, path, B, cent, fail) ==
    LET u == _update_faiss_index(svc, B, cent)
        s == save_faiss_index_to_git_lfs(u.svc, files, g, path, fail)
    IN  IF u.out = "True"
        THEN [s EXCEPT !.out = IF s.out = "True" THEN Response(200, "success", <<>>)
                                 ELSE Response(500, "error", <<>>)]
        ELSE [LfsResult(u.svc.index, u.svc.embeddings, files, g, g.cwd, "False", FALSE, <<>>)
                 EXCEPT !.out = Response(500, "error", <<>>)]

(* RecommendationsConfig.ready(): outside DEBUG a service is built and the *)
(* index loaded from the checkout; the outcome is only logged.  It runs    *)
(* once, before the first request; under DEBUG it does nothing.            *)
Ready ==
    \E path \in Paths : \E fail \in Failures(LoadSteps) :
        LET r == load_faiss_index_from_git_lfs(NewService, disk, git, path, fail)
        IN  /\ git.log = <<>>
            /\ response = NoResponse
            /\ index' = r.index
            /\ embeddings' = r.embeddings
            /\ disk' = r.disk
            /\ git' = Injected(r, fail)
            /\ last' = Call("ready", r.out, r.fresh, EmptyBatch, 0, path, NoResult)
            /\ UNCHANGED <<saves, threads, use_gpu, gpu_available, response>>

(* GET faiss/status/                                                       *)
GetFaissStatus ==
    /\ response' = get_faiss_status(NewService)
    /\ last' = Call("get_faiss_status", "ok", FALSE, EmptyBatch, 0, NoPath, NoResult)
    /\ UNCHANGED <<index, embeddings, disk, saves, git, threads, use_gpu, gpu_available>>

(* POST faiss/update/ with the embeddings B of the current users.          *)
UpdateFaissIndex ==
    \E path \in Paths : \E B \in SnapshotBatches : \E cent \in TrainChoices(B) :
    \E fail \in SaveFailures :
        LET r == update_faiss_index(NewService, disk, git, path, B, cent, fail)
        IN  /\ response' = r.out
            /\ disk' = r.disk
            /\ git' = [r.git EXCEPT !.fail = NoFailure]
            /\ last' = Call("update_faiss_index", "ok", FALSE, B, 0, path, NoResult)
            /\ UNCHANGED <<index, embeddings, saves, threads, use_gpu, gpu_available>>

(* POST faiss/reload/                                                      *)
ReloadFaissIndex ==
    \E path \in Paths : \E fail \in Failures(LoadSteps) :
        LET r == load_faiss_index_from_git_lfs(NewService, disk, git, path, fail)
        IN  /\ index' = r.index
            /\ embeddings' = r.embeddings
            /\ disk' = r.disk
            /\ git' = Injected(r, fail)
            /\ response' = IF r.out = "True" THEN Response(200, "success", <<>>)
                           ELSE Response(500, "error", <<>>)
            /\ last' = Call("reload_faiss_index", r.out, r.fresh, EmptyBatch, 0, path,
                            NoResult)
            /\ UNCHANGED <<saves, threads, use_gpu, gpu_available>>

(* Another writer pushes to origin the snapshot its own manager saved      *)
(* from a clean checkout.                                                  *)
Publish ==
    \E path \in Paths : \E B \in SnapshotBatches : \E cent \in TrainChoices(B) :
        LET m == init_index(None, B, cent)
            s == save_index_to_git_lfs(m.index, m.embeddings, [f \in FileNames |-> Absent],
                                       GitInit, path, NoFailure)
        IN  /\ m.out = "ok"
            /\ s.out = "True"
            /\ s.git.remote # git.remote
            /\ git' = [git EXCEPT !.remote = s.git.remote, !.behind = TRUE]
            /\ last' = Call("publish", "ok", FALSE, B, 0, path, NoResult)
            /\ UNCHANGED <<index, embeddings, disk, saves, threads, use_gpu, gpu_available,
                           response>>

NextWeb == Ready \/ GetFaissStatus \/ UpdateFaissIndex \/ ReloadFaissIndex \/ Publish

SpecWeb == Init /\ [][NextWeb]_vars

-----------------------------------------------------------------------------
(* A manager that is rebuilt and saved several times at the same           *)
(* location, and managers that load what is there.                         *)

SaveSnapshot ==
    \E path \in Paths :
        LET r == save_index(index, embeddings, disk, path)
        IN  /\ r.out = "ok" => saves < MaxSnapshots
            /\ disk' = r.disk
            /\ saves' = IF r.out = "ok" THEN saves + 1 ELSE saves
            /\ last' = Call("save_index", r.out, FALSE, EmptyBatch, 0, path, NoResult)
            /\ UNCHANGED <<index, embeddings, git, threads, use_gpu, gpu_available, response>>

NextSnapshots == New \/ SnapshotInitIndex \/ SaveSnapshot \/ LoadIndex

SpecSnapshots == Init /\ [][NextSnapshots]_vars

-----------------------------------------------------------------------------
(* init_index called with batches of any width: the calls that fail        *)
(* part-way are included.                                                  *)

InitIndexAnyWidth == InitIndexFrom(Batches(MaxBatch))

NextInit == New \/ InitIndexAnyWidth \/ AddToIndex \/ Search

SpecInit == Init /\ [][NextInit]_vars

-----------------------------------------------------------------------------
(* Managers built with and without use_gpu, on machines with and without   *)
(* a GPU the library can use.                                              *)

InitGpu ==
    /\ index = NoIndex
    /\ embeddings = None
    /\ disk = [f \in FileNames |-> Absent]
    /\ saves = 0
    /\ git = GitInit
    /\ threads = NoThreads
    /\ use_gpu \in BOOLEAN
    /\ gpu_available \in BOOLEAN
    /\ response = NoResponse
    /\ last = [op |-> "new", out |-> "ok", fresh |-> FALSE, batch |-> EmptyBatch,
               k |-> 0, path |-> NoPath, result |-> NoResult,
               pre |-> [kind |-> "None", isNone |-> TRUE]]

NextGpu == New \/ InitIndex \/ AddToIndex \/ Search

SpecGpu == InitGpu /\ [][NextGpu]_vars

-----------------------------------------------------------------------------
(* Requests that run load_index_from_git_lfs and save_index_to_git_lfs in  *)
(* threads of one process.  Every request has its own service and manager  *)
(* (held in the thread record); the threads share the checkout and the     *)
(* working directory of the process, which os.chdir changes for all of     *)
(* them.  A step is one statement of the method.  A thread record: the     *)
(* method (op), the statement to run next (pc), the local original_dir,    *)
(* the outcome of the last call (out), whether one of its git commands     *)
(* ran while the working directory was not repo_path (astray), whether a   *)
(* call of the thread ended in an exception (raised), its manager and the  *)
(* number of calls made.                                                   *)

GitCommands == {"pull", "lfs_install", "lfs_pull", "lfs_track", "add", "commit", "push"}

LfsIdle ==
    [pc |-> "idle", op |-> "none", original_dir |-> "unbound", out |-> "none",
     astray |-> FALSE, raised |-> FALSE, index |-> NoIndex, embeddings |-> None,
     calls |-> 0]

InitCwd ==
    /\ index = NoIndex
    /\ embeddings = None
    /\ disk = [f \in FileNames |-> Absent]
    /\ saves = 0
    /\ git = GitInit
    /\ threads = [t \in Threads |-> LfsIdle]
    /\ use_gpu = FALSE
    /\ gpu_available = FALSE
    /\ response = NoResponse
    /\ last = [op |-> "new", out |-> "ok", fresh |-> FALSE, batch |-> EmptyBatch,
               k |-> 0, path |-> NoPath, result |-> NoResult,
               pre |-> [kind |-> "None", isNone |-> TRUE]]

(* The statement after step in the method op.                              *)
After(op, step) ==
    LET steps == StepsOf(op)
        i == CHOOSE j \in 1..Len(steps) : steps[j] = step
    IN  steps[i + 1]

IndexPath == CHOOSE path \in Paths : TRUE

Goto(t, pc) == [threads[t] EXCEPT !.pc = pc]

Advance(t) == Goto(t, After(threads[t].op, threads[t].pc))

Returned(t, out) ==
    [threads[t] EXCEPT !.pc = "idle", !.out = out, !.original_dir = "unbound",
                       !.raised = threads[t].raised \/ out \notin {"True", "False"}]

LfsFrame == UNCHANGED <<index, embeddings, saves, last, use_gpu, gpu_available, response>>

(* A request thread calls load_index_from_git_lfs on the manager its       *)
(* service has just created.                                               *)
CallLoad(t) ==
    /\ threads[t].pc = "idle"
    /\ threads[t].calls < MaxRequests
    /\ threads' = [threads EXCEPT ![t] =
                      [@ EXCEPT !.pc = "getcwd", !.op = "load_index_from_git_lfs",
                                !.index = NoIndex, !.embeddings = None,
                                !.calls = @ + 1]]
    /\ UNCHANGED <<disk, git>>
    /\ LfsFrame

(* A thread calls save_index_to_git_lfs on a manager it has initialised.   *)
CallSave(t) ==
    \E B \in SnapshotBatches : \E cent \in TrainChoices(B) :
        LET m == init_index(None, B, cent)
        IN  /\ threads[t].pc = "idle"
            /\ threads[t].calls < MaxRequests
            /\ m.out = "ok"
            /\ threads' = [threads EXCEPT ![t] =
                              [@ EXCEPT !.pc = "getcwd", !.op = "save_index_to_git_lfs",
                                        !.index = m.index, !.embeddings = m.embeddings,
                                        !.calls = @ + 1]]
            /\ UNCHANGED <<disk, git>>
            /\ LfsFrame

(* original_dir = os.getcwd() (lines 174, 218).  When it raises, the       *)
(* except block raises UnboundLocalError.                                  *)
Getcwd(t) ==
    /\ threads[t].pc = "getcwd"
    /\ \E ok \in BOOLEAN :
          threads' = [threads EXCEPT ![t] =
                         IF ok THEN [Advance(t) EXCEPT !.original_dir = git.cwd]
                         ELSE Returned(t, "UnboundLocalError")]
    /\ UNCHANGED <<disk, git>>
    /\ LfsFrame

(* os.chdir(repo_path) (lines 175, 219): the directory of the process.     *)
Chdir(t) ==
    /\ threads[t].pc = "chdir"
    /\ \E ok \in BOOLEAN :
          IF ok
          THEN /\ git' = [git EXCEPT !.cwd = RepoPath]
               /\ threads' = [threads EXCEPT ![t] = Advance(t)]
          ELSE /\ git' = git
               /\ threads' = [threads EXCEPT ![t] = Goto(t, "except")]
    /\ UNCHANGED disk
    /\ LfsFrame

(* What a git command does to the checkout when it runs in repo_path; ok   *)
(* is FALSE when git exits with an error.                                  *)
RunGit(cmd, g, files) ==
    IF cmd = "pull"
    THEN IF CanPull(g, files)
         THEN [ok |-> TRUE, git |-> git_pull(g, files).git, disk |-> git_pull(g, files).disk]
         ELSE [ok |-> FALSE, git |-> g, disk |-> files]
    ELSE IF cmd = "lfs_track"
    THEN [ok |-> TRUE, git |-> git_lfs_track(g), disk |-> files]
    ELSE IF cmd = "add"
    THEN IF CanAdd(g, files, IndexPath)
         THEN [ok |-> TRUE, git |-> git_add(g, files, IndexPath), disk |-> files]
         ELSE [ok |-> FALSE, git |-> g, disk |-> files]
    ELSE IF cmd = "commit"
    THEN IF CanCommit(g)
         THEN [ok |-> TRUE, git |-> git_commit(g), disk |-> files]
         ELSE [ok |-> FALSE, git |-> g, disk |-> files]
    ELSE IF cmd = "push"
    THEN IF CanPush(g)
         THEN [ok |-> TRUE, git |-> git_push(g), disk |-> files]
         ELSE [ok |-> FALSE, git |-> g, disk |-> files]
    ELSE [ok |-> TRUE, git |-> g, disk |-> files]

(* subprocess.run(['git', ...], check=True): the command runs in the       *)
(* working directory the process has at that moment.  In repo_path it      *)
(* acts on the checkout, or fails for a reason of the environment.         *)
(* Elsewhere it fails when that directory is no repository and acts on     *)
(* whatever repository it finds otherwise.                                 *)
GitCommand(t) ==
    /\ threads[t].pc \in GitCommands
    /\ IF git.cwd = RepoPath
       THEN \E ok \in BOOLEAN :
               LET r == RunGit(threads[t].pc, git, disk)
               IN  IF ok /\ r.ok
                   THEN /\ git' = r.git
                        /\ disk' = r.disk
                        /\ threads' = [threads EXCEPT ![t] = Advance(t)]
                   ELSE /\ UNCHANGED <<git, disk>>
                        /\ threads' = [threads EXCEPT ![t] = Goto(t, "except")]
       ELSE \E ok \in BOOLEAN :
               /\ UNCHANGED <<git, disk>>
               /\ threads' = [threads EXCEPT ![t] =
                                 [(IF ok THEN Advance(t) ELSE Goto(t, "except"))
                                     EXCEPT !.astray = TRUE]]
    /\ LfsFrame

(* self.save_index / self.load_index on os.path.join(repo_path,            *)
(* index_path), the path of the file in the checkout.                      *)
FileAccess(t) ==
    /\ threads[t].pc \in {"save_index", "load_index"}
    /\ \E ok \in BOOLEAN :
          IF threads[t].pc = "save_index"
          THEN LET r == save_index(threads[t].index, threads[t].embeddings, disk, IndexPath)
               IN  IF ok /\ r.out = "ok"
                   THEN /\ disk' = r.disk
                        /\ threads' = [threads EXCEPT ![t] = Advance(t)]
                   ELSE /\ disk' = disk
                        /\ threads' = [threads EXCEPT ![t] = Goto(t, "except")]
          ELSE LET r == load_index(threads[t].index, threads[t].embeddings, disk, IndexPath)
               IN  /\ disk' = disk
                   /\ threads' = [threads EXCEPT ![t] =
                         IF ~ok THEN Goto(t, "except")
                         ELSE [(IF r.out = "ok" THEN Advance(t) ELSE Goto(t, "except"))
                                  EXCEPT !.index = r.index, !.embeddings = r.embeddings]]
    /\ UNCHANGED git
    /\ LfsFrame

(* os.chdir(original_dir); return True (lines 193-196, 236-239).  When the *)
(* chdir raises, the chdir of the except block raises again.               *)
ChdirBack(t) ==
    /\ threads[t].pc = "chdir_back"
    /\ \E ok \in BOOLEAN :
          IF ok
          THEN /\ git' = [git EXCEPT !.cwd = threads[t].original_dir]
               /\ threads' = [threads EXCEPT ![t] = Returned(t, "True")]
          ELSE /\ git' = git
               /\ threads' = [threads EXCEPT ![t] = Returned(t, "FileNotFoundError")]
    /\ UNCHANGED disk
    /\ LfsFrame

(* The except block: os.chdir(original_dir); return False (lines 198-202,  *)
(* 241-245).                                                               *)
Except(t) ==
    /\ threads[t].pc = "except"
    /\ git' = [git EXCEPT !.cwd = threads[t].original_dir]
    /\ threads' = [threads EXCEPT ![t] = Returned(t, "False")]
    /\ UNCHANGED disk
    /\ LfsFrame

NextCwd ==
    \E t \in Threads :
        \/ CallLoad(t)
        \/ CallSave(t)
        \/ Getcwd(t)
        \/ Chdir(t)
        \/ GitCommand(t)
        \/ FileAccess(t)
        \/ ChdirBack(t)
        \/ Except(t)

SpecCwd == InitCwd /\ [][NextCwd]_vars

-----------------------------------------------------------------------------
(* Properties.                                                             *)

GoodWidth(B) == B.w = embedding_dim

(* C1: whenever the manager has an index, the number of vectors in the    *)
(* index equals the number of rows of self.embeddings (0 when None).      *)
C1_CountEqualsStore ==
    index.kind # "None" => ntotal(index) = NumRows(embeddings)

(* C2: an add_to_index on a Flat manager holding n < T vectors ends       *)
(* Clustered with count n + len(B) when n + len(B) >= T, and stays Flat   *)
(* when n + len(B) < T.                                                   *)
C2_CrossingUpgradesInSameCall ==
    [][(/\ last'.op = "add_to_index"
        /\ GoodWidth(last'.batch)
        /\ index.kind = "Flat"
        /\ ntotal(index) < min_data_size_for_ivf)
       => IF ntotal(index) + Len(last'.batch.rows) >= min_data_size_for_ivf
          THEN /\ index'.kind = "IVFPQ"
               /\ ntotal(index') = ntotal(index) + Len(last'.batch.rows)
               /\ NumRows(embeddings') = ntotal(index) + Len(last'.batch.rows)
          ELSE index'.kind = "Flat"]_vars

(* C3: when an add_to_index turns a Flat manager Clustered, the rebuilt   *)
(* index and the vector store hold the vectors of the old index followed  *)
(* by the new batch.                                                      *)
C3_RebuildKeepsEveryVector ==
    [][(/\ last'.op = "add_to_index"
        /\ last'.out = "ok"
        /\ index.kind = "Flat"
        /\ index'.kind = "IVFPQ")
       => /\ index'.vecs = index.vecs \o last'.batch.rows
          /\ ~embeddings'.isNone
          /\ embeddings'.rows = index.vecs \o last'.batch.rows]_vars

(* C4 as stated: once the variant is Clustered, no init_index,            *)
(* add_to_index or load_index call on the manager makes it anything else. *)
C4_NeverRevertsToFlat ==
    [][(/\ index.kind = "IVFPQ"
        /\ last'.op \in {"init_index", "add_to_index", "load_index"})
       => index'.kind = "IVFPQ"]_vars

(* C4 as amended: once the variant is Clustered, no add_to_index call     *)
(* makes it Flat, and an add_to_index changes the variant only from Flat  *)
(* to Clustered.                                                          *)
C4_AddNeverRevertsToFlat ==
    [][last'.op = "add_to_index"
       => /\ index.kind = "IVFPQ" => index'.kind = "IVFPQ"
          /\ index'.kind # index.kind => index.kind = "Flat" /\ index'.kind = "IVFPQ"]_vars

C4_Witness ==
    /\ last.op = "add_to_index"
    /\ last.out = "ok"
    /\ last.pre.kind = "IVFPQ"
    /\ Len(last.batch.rows) >= 1
    /\ index.kind = "IVFPQ"

C6_PositionsStable ==
    [][(last'.op = "add_to_index" /\ last'.out = "ok")
       => /\ \A p \in 1..ntotal(index) :
                p <= ntotal(index') /\ index'.vecs[p] = index.vecs[p]
          /\ ~embeddings'.isNone
          /\ embeddings'.rows = index'.vecs]_vars

(* C7: a search with k larger than the count returns exactly count        *)
(* results per query row.                                                 *)
C7_BoundedK ==
    (last.op = "search" /\ last.out = "ok" /\ ntotal(index) < last.k)
    => \A r \in 1..Len(last.result.I) :
          /\ Len(last.result.I[r]) = ntotal(index)
          /\ Len(last.result.D[r]) = ntotal(index)

(* C8: a search with k <= count returns, per query row, k distances and   *)
(* k positions, each position in [0, count).                              *)
C8_ExactlyKValid ==
    (last.op = "search" /\ last.out = "ok" /\ last.k <= ntotal(index))
    => /\ Len(last.result.I) = Len(last.batch.rows)
       /\ \A r \in 1..Len(last.result.I) :
             /\ Len(last.result.I[r]) = last.k
             /\ Len(last.result.D[r]) = last.k
             /\ \A p \in 1..last.k : last.result.I[r][p] \in 0..(ntotal(index) - 1)

(* C9: on a manager without index, search, add_to_index and save_index    *)
(* raise ValueError and change nothing: index and embeddings stay None,   *)
(* no file is written.                                                    *)
C9_UninitializedCallsFail ==
    [][(/\ index.kind = "None"
        /\ embeddings.isNone
        /\ last'.op \in {"search", "add_to_index", "save_index"})
       => /\ last'.out = "ValueError"
          /\ index' = NoIndex
          /\ embeddings' = None
          /\ disk' = disk]_vars

C9_Witness ==
    /\ last.op = "save_index"
    /\ last.out = "ValueError"
    /\ last.pre.kind = "None"
    /\ index = NoIndex
    /\ embeddings = None

(* C10: add_to_index or search with a batch of a width other than D on a  *)
(* manager that has an index fails and leaves the index object, the       *)
(* variant, the count and the vector store as they were.                  *)
C10_DimensionGuard ==
    [][(/\ index.kind # "None"
        /\ last'.op \in {"add_to_index", "search"}
        /\ ~GoodWidth(last'.batch))
       => /\ last'.out # "ok"
          /\ ~last'.fresh
          /\ index'.kind = index.kind
          /\ index'.vecs = index.vecs
          /\ embeddings' = embeddings]_vars

(* C11: an add_to_index(B) of width D that crosses no threshold (Flat and  *)
(* the new total below T, or already Clustered) succeeds on the cheap      *)
(* path: the index object and the variant are kept, nothing is retrained,  *)
(* and the index holds its old vectors followed by B.                      *)
C11_CheapPathAppends ==
    [][(/\ last'.op = "add_to_index"
        /\ GoodWidth(last'.batch)
        /\ \/ index.kind = "Flat"
              /\ ntotal(index) + Len(last'.batch.rows) < min_data_size_for_ivf
           \/ index.kind = "IVFPQ")
       => /\ last'.out = "ok"
          /\ ~last'.fresh
          /\ index'.kind = index.kind
          /\ index'.is_trained = index.is_trained
          /\ index'.centroids = index.centroids
          /\ index'.vecs = index.vecs \o last'.batch.rows]_vars

(* The manager M' of the round trip: save_index(path) on the current       *)
(* manager, then load_index(path) on a fresh manager.                      *)
RoundTrip(path) ==
    load_index(NoIndex, None, save_index(index, embeddings, disk, path).disk, path)

(* C12: for every manager with an index, save_index(path) followed by      *)
(* load_index(path) on a fresh manager succeeds and gives the same variant *)
(* and count; for Flat the same search results for every query and k; for  *)
(* Clustered a vector store that is not None and has the shape of the      *)
(* saved one.                                                              *)
C12_SaveLoadRoundTrip ==
    index.kind # "None"
    => \A path \in Paths :
          LET m == RoundTrip(path)
          IN  /\ m.out = "ok"
              /\ m.index.kind = index.kind
              /\ ntotal(m.index) = ntotal(index)
              /\ index.kind = "Flat"
                 => \A Q \in Queries : \A k \in 1..MaxK :
                       search(m.index, Q, k) = search(index, Q, k)
              /\ index.kind = "IVFPQ"
                 => /\ ~m.embeddings.isNone
                    /\ ~embeddings.isNone
                    /\ m.embeddings.w = embeddings.w
                    /\ Len(m.embeddings.rows) = Len(embeddings.rows)

(* C13: a save_index_to_git_lfs that follows, with the manager unchanged   *)
(* and no failure of the environment, a save that failed at the push after *)
(* its commit succeeded, or a save that succeeded, returns True and leaves *)
(* the committed snapshot pushed to origin.                                *)
C13_SaveIsRetryable ==
    [][(/\ last.op = "save_index_to_git_lfs"
        /\ \/ last.out = "False" /\ git.fail = "push"
           \/ last.out = "True"
        /\ last'.op = "save_index_to_git_lfs"
        /\ last'.path = last.path
        /\ git'.fail = NoFailure)
       => /\ last'.out = "True"
          /\ git'.remote = git'.head
          /\ ~git'.ahead]_vars

(* C14: after a save_index_to_git_lfs that returned True, origin holds the *)
(* snapshot of the manager: for a Clustered manager both the index file    *)
(* and the raw-vector file, for a Flat manager the single index file.      *)
C14_SnapshotArtifactsPushed ==
    (last.op = "save_index_to_git_lfs" /\ last.out = "True")
    => IF index.kind = "IVFPQ"
       THEN /\ git.remote.files[IndexFile(last.path)] = write_index(index)
            /\ git.remote.files[NpyFile(last.path)] = np_save(embeddings)
       ELSE git.remote.files[last.path] = write_index(index)

(* C15: a load_index that raises, or a load_index_from_git_lfs that        *)
(* returns False, leaves self.index and self.embeddings exactly as they     *)
(* were before the call.                                                   *)
C15_FailedLoadKeepsState ==
    [][(/\ last'.op \in {"load_index", "load_index_from_git_lfs"}
        /\ last'.out \in {"RuntimeError", "False"})
       => /\ index' = index
          /\ embeddings' = embeddings]_vars

(* C16: load_index_from_git_lfs and save_index_to_git_lfs never raise:     *)
(* they return False when a step failed, whichever step it was, and True   *)
(* only when every step was run and succeeded.                             *)
C16_LfsCallsNeverRaise ==
    last.op \in LfsOps
    => /\ last.out \in {"True", "False"}
       /\ git.fail # NoFailure => last.out = "False"
       /\ last.out = "True" => git.log = StepsOf(last.op) /\ git.fail = NoFailure

(* No file of a snapshot exists at the location.                           *)
SnapshotMissing(files, path) ==
    /\ files[path].kind = "absent"
    /\ files[IndexFile(path)].kind = "absent"
    /\ files[NpyFile(path)].kind = "absent"

(* What the caller gets when origin cannot be reached.                     *)
UnreachableOutcome(path) ==
    load_index_from_git_lfs(index, embeddings, disk, git, path, "pull").out

(* C17: a load_index_from_git_lfs that found no snapshot at the location   *)
(* (the pull worked, nothing is saved there yet) does not raise and        *)
(* reports an outcome other than the one of an unreachable store.          *)
C17_MissingSnapshotDistinguished ==
    (/\ last.op = "load_index_from_git_lfs"
     /\ git.fail = NoFailure
     /\ git.log = UpTo(LoadSteps, "load_index")
     /\ SnapshotMissing(disk, last.path))
    => /\ last.out \notin {"UnboundLocalError", "FileNotFoundError", "RuntimeError"}
       /\ last.out # UnreachableOutcome(last.path)

Attempted(log, step) == \E i \in 1..Len(log) : log[i] = step

IsPrefix(log, steps) == Len(log) <= Len(steps) /\ log = SubSeq(steps, 1, Len(log))

(* C18: the steps of a call are attempted in program order and a step is   *)
(* attempted only after the earlier ones succeeded.  Load: the snapshot is *)
(* deserialized, and the manager changed, only after the pull succeeded.   *)
(* Save: the commit is attempted only with the serialized snapshot staged, *)
(* the push only after the commit succeeded, and origin changes only by    *)
(* the push.                                                               *)
C18_StepsInOrder ==
    [][/\ last'.op = "load_index_from_git_lfs"
          => /\ IsPrefix(git'.log, LoadSteps)
             /\ Attempted(git'.log, "load_index") => CanPull(git, disk) /\ ~git'.behind
             /\ (index' # index \/ embeddings' # embeddings)
                => Attempted(git'.log, "load_index")
             /\ git'.remote = git.remote
       /\ last'.op = "save_index_to_git_lfs"
          => /\ IsPrefix(git'.log, SaveSteps)
             /\ Attempted(git'.log, "lfs_track")
                => disk' = save_index(index, embeddings, disk, last'.path).disk
             /\ Attempted(git'.log, "commit")
                => git'.staged.files[last'.path] = disk'[last'.path] /\ git'.staged.attrs
             /\ Attempted(git'.log, "push") => git'.head = git'.staged
             /\ git'.remote # git.remote
                => Attempted(git'.log, "push") /\ git'.remote = git'.head]_vars

C18_Witness ==
    /\ last.op = "save_index_to_git_lfs"
    /\ last.out = "False"
    /\ git.fail = "commit"
    /\ git.staged # git.head
    /\ git.head # git.remote
    /\ ~git.behind

(* C19: a search never runs while another thread is inside init_index or   *)
(* add_to_index: what a completed search saw is a trained index whose      *)
(* count equals the count of the vector store, with no mutating call in    *)
(* progress.                                                               *)
C19_SearchSeesNoIntermediateState ==
    \A t \in Threads :
        (threads[t].op = "search" /\ threads[t].pc = "done" /\ threads[t].out = "ok")
        => /\ ~threads[t].seen.busy
           /\ threads[t].seen.is_trained
           /\ threads[t].seen.ntotal = threads[t].seen.store

(* C20: when an add_to_index was called while another add_to_index was     *)
(* running on a manager no call was mutating when that one began, then     *)
(* after both have returned the index and the vector store hold the count  *)
(* from before the two calls plus both batches, and the manager is         *)
(* Clustered when that total is at least T.                                *)
C20_ConcurrentAddsSerialize ==
    \A t, u \in Threads :
        (/\ t # u
         /\ threads[t].op = "add_to_index" /\ threads[t].pc = "done" /\ threads[t].out = "ok"
         /\ threads[u].op = "add_to_index" /\ threads[u].pc = "done" /\ threads[u].out = "ok"
         /\ threads[t].quiet
         /\ threads[u].peer = threads[t].calls)
        => LET total == threads[t].n0 + Len(threads[t].batch.rows) + Len(threads[u].batch.rows)
           IN  /\ ntotal(index) = total
               /\ NumRows(embeddings) = total
               /\ total >= min_data_size_for_ivf => index.kind = "IVFPQ"

(* C21: a faiss-status request that follows a startup load or a reload     *)
(* that left a Ready manager in this process reports 'success' with        *)
(* is_initialized true; it reports 'not_initialized' only when the         *)
(* process holds no index.                                                 *)
C21_StatusSeesProcessIndex ==
    last.op = "get_faiss_status"
    => /\ index.kind # "None"
          => response.status = "success" /\ response.data.is_initialized
       /\ response.status = "not_initialized" => index.kind = "None"

(* C22: a faiss-update request with at least one user, in which no step    *)
(* of the save is made to fail by the environment, is answered with HTTP   *)
(* 200 and status 'success'.                                               *)
C22_UpdateSucceeds ==
    (last.op = "update_faiss_index" /\ Len(last.batch.rows) >= 1 /\ git.fail = NoFailure)
    => response.code = 200 /\ response.status = "success"

(* C23: a faiss-status request is never answered with an error; it         *)
(* reports the uninitialized marker when the process holds no index and,   *)
(* when the process holds a Ready manager, the variant, the count and the  *)
(* dimension of its index.                                                 *)
C23_StatusIsSafe ==
    last.op = "get_faiss_status"
    => /\ response.code = 200
       /\ index.kind = "None" => response.status = "not_initialized"
       /\ index.kind # "None"
          => /\ response.status = "success"
             /\ response.data.index_type = TypeName(index)
             /\ response.data.num_vectors = ntotal(index)
             /\ response.data.dimension = index.d

(* C24: on a manager built with use_gpu where the GPU cannot be used,      *)
(* create_index returns for every size the CPU index the threshold         *)
(* selects; the manager never holds a GPU index; init_index with a batch   *)
(* of width D succeeds and ends with the variant and count of a manager    *)
(* without acceleration, and add_to_index and search work on that index.   *)
C24_GpuFallback ==
    (use_gpu /\ ~gpu_available)
    => /\ \A n \in 0..MaxTotal :
            create_index(n) = IF n < min_data_size_for_ivf
                              THEN IndexFlatL2(embedding_dim)
                              ELSE IndexIVFPQ(embedding_dim)
       /\ index.kind \notin GpuKinds
       /\ (last.op = "init_index" /\ GoodWidth(last.batch))
          => /\ last.out = "ok"
             /\ ntotal(index) = Len(last.batch.rows)
             /\ index.kind = IF Len(last.batch.rows) < min_data_size_for_ivf
                             THEN "Flat" ELSE "IVFPQ"
       /\ (last.op \in {"add_to_index", "search"} /\ last.out = "ok")
          => index.kind \in {"Flat", "IVFPQ"}

C24_Witness ==
    /\ use_gpu
    /\ ~gpu_available
    /\ last.op = "search"
    /\ last.out = "ok"
    /\ index.kind = "IVFPQ"
    /\ index.is_trained
    /\ ntotal(index) > min_data_size_for_ivf

(* C25: whenever the manager holds a clustered (IVFPQ) index, that index   *)
(* is trained.                                                             *)
C25_ClusteredIsTrained ==
    index.kind = "IVFPQ" => index.is_trained

(* C26: a load_index(path) that directly follows a successful              *)
(* save_index(path) yields the variant and the vectors of the manager      *)
(* that was just saved, whatever was saved at path before.                 *)
C26_LoadReturnsLatestSave ==
    [][(/\ last.op = "save_index"
        /\ last.out = "ok"
        /\ last'.op = "load_index"
        /\ last'.path = last.path)
       => /\ last'.out = "ok"
          /\ index'.kind = index.kind
          /\ index'.vecs = index.vecs]_vars

(* C27: a Flat index never holds T or more vectors.                        *)
C27_FlatBelowThreshold ==
    index.kind = "Flat" => ntotal(index) < min_data_size_for_ivf

(* C28: an init_index, or an add_to_index that rebuilds through            *)
(* init_index, that raises leaves self.index and self.embeddings as they   *)
(* were before the call.                                                   *)
C28_FailedInitKeepsState ==
    [][(/\ last'.out # "ok"
        /\ \/ last'.op = "init_index"
           \/ last'.op = "add_to_index" /\ SwitchesToIVF(index, embeddings, last'.batch))
       => index' = index /\ embeddings' = embeddings]_vars

(* C29: a load_index_from_git_lfs or save_index_to_git_lfs that returns,   *)
(* with True or with False, leaves the working directory of the process    *)
(* the one it was when the call began.                                     *)
C29_WorkingDirectoryRestored ==
    [][(last'.op \in LfsOps /\ last'.out \in {"True", "False"})
       => git'.cwd = git.cwd]_vars

C29_Witness ==
    /\ last.op = "load_index_from_git_lfs"
    /\ last.out = "False"
    /\ git.fail = "lfs_pull"
    /\ git.behind = FALSE
    /\ git.head # EmptyLayer
    /\ git.cwd = OrigDir

(* C30: with calls of load_index_from_git_lfs and save_index_to_git_lfs    *)
(* running in several threads, whenever no call is in progress and every   *)
(* call so far has returned True or False the working directory of the     *)
(* process is the one it had before the calls, and no call has run a git   *)
(* command outside its repository path.                                    *)
C30_ConcurrentCallsKeepCwd ==
    /\ (\A t \in Threads : threads[t].pc = "idle" /\ ~threads[t].raised)
       => git.cwd = OrigDir
    /\ \A t \in Threads : ~threads[t].raised => ~threads[t].astray

====
